---- MODULE Spec2Model ----
(***************************************************************************)
(* Checkout pipeline of the shop backend: the routes /checkout/calculate,  *)
(* /checkout/create-session, /checkout/complete and /shop/orders running   *)
(* as concurrent async handlers over the shared tables products,           *)
(* checkout_sessions and orders.  Every `await` of a handler is one step:  *)
(* other handlers may run between two awaits of the same handler.          *)
(* Money is in whole dollars (the seeded prices are integers).             *)
(***************************************************************************)
EXTENDS Integers, Sequences, FiniteSets, TLC

\* ---------------------------------------------------------------- bounds
NumReqs == 2        \* handlers that may be in flight at the same time
MaxCartLen == 2     \* lines in a request's cart
MaxSessions == 2    \* checkout sessions ever stored
MaxOrders == 2      \* orders ever inserted
MaxTime == 2        \* hours the clock advances
InitStock == 2      \* inventory_count of the physical products at start

\* ------------------------------------------------------ program constants
TTL == 1            \* DATE_ADD(NOW(), INTERVAL 1 HOUR)

Reqs == 1..NumReqs
\* a line asks for the whole starting stock or for one more
Quantities == {InitStock, InitStock + 1}
SessionIds == 1..MaxSessions
\* product ids a request may name: 1 physical, 2 digital, 3 inactive,
\* 4 has no row in products
RequestedIds == 1..4

\* products, checkout_sessions, orders: the tables;  req: the handlers in
\* flight;  out: the response the last step sent, if it sent one;  now: the
\* database clock;  nextSid: session ids handed out so far.
\* decremented and lineDecs are not program state: they count the stock
\* UPDATEs executed, per product (quantity) and per session line (times).
VARIABLES products, checkout_sessions, orders, req, out, now, nextSid,
          decremented, lineDecs

vars == <<products, checkout_sessions, orders, req, out, now, nextSid,
          decremented, lineDecs>>

\* ---------------------------------------------------------------- tables
\* rows of products (CREATE TABLE products), the columns the checkout reads
InitProducts ==
  [p \in {1, 2, 3} |->
     CASE p = 1 -> [id |-> 1, price |-> 35, inventory_count |-> InitStock,
                    is_digital |-> FALSE, is_active |-> TRUE]
       [] p = 2 -> [id |-> 2, price |-> 15, inventory_count |-> 0,
                    is_digital |-> TRUE, is_active |-> TRUE]
       [] p = 3 -> [id |-> 3, price |-> 65, inventory_count |-> InitStock,
                    is_digital |-> FALSE, is_active |-> FALSE]]

\* rows[0] || null of a SELECT that matched nothing
NullProduct == [id |-> 0, price |-> 0, inventory_count |-> 0,
                is_digital |-> FALSE, is_active |-> FALSE]
NullSession == [session_id |-> 0, items |-> <<>>, subtotal |-> 0,
                shipping_cost |-> 0, shipping_method |-> "",
                tax_amount |-> 0, total |-> 0, expires_at |-> 0]

\* the quantity varies for the physical product only: a digital line is
\* not checked against stock and an unresolved line is rejected unread
CartLines == {l \in [productId : RequestedIds, quantity : Quantities] :
                l.productId # 1 => l.quantity = InitStock}

\* SELECT * FROM products WHERE id = ? AND is_active = 1
ProductGet(id) ==
  IF id \in DOMAIN products /\ products[id].is_active
  THEN products[id] ELSE NullProduct

\* if (!product)
ProductMissingAlways(product) == FALSE
ProductMissing(product) == product.id = 0

\* if (!product.is_digital && product.inventory_count < item.quantity)
InsufficientStockAnyKind(product, line) ==
  product.inventory_count < line.quantity
InsufficientStock(product, line) ==
  ~product.is_digital /\ product.inventory_count < line.quantity

\* orderItems.push({productId, title, price, quantity, category, isDigital})
OrderItemStockPriced(product, line) ==
  [productId |-> product.id, price |-> product.inventory_count,
   quantity |-> line.quantity, isDigital |-> product.is_digital]
OrderItem(product, line) ==
  [productId |-> product.id, price |-> product.price,
   quantity |-> line.quantity, isDigital |-> product.is_digital]

\* SELECT * FROM checkout_sessions WHERE session_id = ?
SessionGetAny(sid) ==
  IF checkout_sessions = {} THEN NullSession
  ELSE CHOOSE s \in checkout_sessions : TRUE
SessionGet(sid) ==
  IF \E s \in checkout_sessions : s.session_id = sid
  THEN CHOOSE s \in checkout_sessions : s.session_id = sid
  ELSE NullSession

\* INSERT INTO checkout_sessions (...) VALUES (...)
SessionInsertNone(rows, row) == rows
SessionInsert(rows, row) == rows \cup {row}

\* DELETE FROM checkout_sessions WHERE session_id = ?
SessionDeleteNone(rows, sid) == rows
SessionDelete(rows, sid) == {s \in rows : s.session_id # sid}

\* UPDATE products SET inventory_count = inventory_count - ? WHERE id = ?
StockUpdateByOne(count, quantity) == count - 1
StockUpdate(count, quantity) == count - quantity

\* the UPDATE touches no row when the id has none
DecrementStock(id, quantity) ==
  IF id \in DOMAIN products
  THEN [products EXCEPT ![id].inventory_count =
          StockUpdate(products[id].inventory_count, quantity)]
  ELSE products

\* index of the first non-digital item at or after i (the stock loop awaits
\* only on those), Len(items) + 1 when there is none
RECURSIVE NextPhysical(_, _)
NextPhysical(items, i) ==
  IF i > Len(items) THEN Len(items) + 1
  ELSE IF ~items[i].isDigital THEN i
  ELSE NextPhysical(items, i + 1)

\* ---- ShippingCalculator.getDeliveryEstimate
\* The clock counts hours; day d of the clock is now \div 24 and day 0 is a
\* Thursday.  result.getDay(): 0 is Sunday, 6 is Saturday.
GetDay(day) == (day + 4) % 7

\* addBusinessDays(date, days): step a day at a time, counting the days
\* that are not Saturday or Sunday
RECURSIVE AddBusinessDays(_, _)
AddBusinessDays(day, days) ==
  IF days = 0 THEN day
  ELSE IF GetDay(day + 1) \notin {0, 6}
  THEN AddBusinessDays(day + 1, days - 1)
  ELSE AddBusinessDays(day + 1, days)

\* SHIPPING_METHODS.standard.estimatedDays
StandardDays == [min |-> 5, max |-> 7]

\* const today = new Date(); minDate and maxDate keep today's time of day
\* (toISOString of the shifted instant)
GetDeliveryEstimate(days, today) ==
  [minDate |-> today + 24 * (AddBusinessDays(today \div 24, days.min)
                               - today \div 24),
   maxDate |-> today + 24 * (AddBusinessDays(today \div 24, days.max)
                               - today \div 24)]

\* ---- TaxCalculator
\* Amounts are in cents and rates in hundred-thousandths (0.0725 is 7250),
\* so that amount * rate is a whole number; the program's doubles are
\* followed to the cent (RoundedTax), not below it.
\* const US_STATE_TAX_RATES
US_STATE_TAX_RATES ==
  "AL" :> 4000 @@ "AK" :> 0 @@ "AZ" :> 5600 @@ "AR" :> 6500 @@
  "CA" :> 7250 @@ "CO" :> 2900 @@ "CT" :> 6350 @@ "DE" :> 0 @@
  "FL" :> 6000 @@ "GA" :> 4000 @@ "HI" :> 4000 @@ "ID" :> 6000 @@
  "IL" :> 6250 @@ "IN" :> 7000 @@ "IA" :> 6000 @@ "KS" :> 6500 @@
  "KY" :> 6000 @@ "LA" :> 4450 @@ "ME" :> 5500 @@ "MD" :> 6000 @@
  "MA" :> 6250 @@ "MI" :> 6000 @@ "MN" :> 6875 @@ "MS" :> 7000 @@
  "MO" :> 4225 @@ "MT" :> 0 @@ "NE" :> 5500 @@ "NV" :> 6850 @@
  "NH" :> 0 @@ "NJ" :> 6625 @@ "NM" :> 5125 @@ "NY" :> 4000 @@
  "NC" :> 4750 @@ "ND" :> 5000 @@ "OH" :> 5750 @@ "OK" :> 4500 @@
  "OR" :> 0 @@ "PA" :> 6000 @@ "RI" :> 7000 @@ "SC" :> 6000 @@
  "SD" :> 4500 @@ "TN" :> 7000 @@ "TX" :> 6250 @@ "UT" :> 4850 @@
  "VT" :> 6000 @@ "VA" :> 4300 @@ "WA" :> 6500 @@ "WV" :> 6000 @@
  "WI" :> 5000 @@ "WY" :> 4000 @@ "DC" :> 6000 @@ "PR" :> 10500

\* const INTERNATIONAL_VAT_RATES
INTERNATIONAL_VAT_RATES ==
  "AT" :> 20000 @@ "BE" :> 21000 @@ "BG" :> 20000 @@ "HR" :> 25000 @@
  "CY" :> 19000 @@ "CZ" :> 21000 @@ "DK" :> 25000 @@ "EE" :> 20000 @@
  "FI" :> 24000 @@ "FR" :> 20000 @@ "DE" :> 19000 @@ "GR" :> 24000 @@
  "HU" :> 27000 @@ "IE" :> 23000 @@ "IT" :> 22000 @@ "LV" :> 21000 @@
  "LT" :> 21000 @@ "LU" :> 17000 @@ "MT" :> 18000 @@ "NL" :> 21000 @@
  "PL" :> 23000 @@ "PT" :> 23000 @@ "RO" :> 19000 @@ "SK" :> 20000 @@
  "SI" :> 22000 @@ "ES" :> 21000 @@ "SE" :> 25000 @@ "GB" :> 20000 @@
  "CH" :> 7700 @@ "NO" :> 25000 @@ "AU" :> 10000 @@ "NZ" :> 15000 @@
  "CA" :> 5000 @@ "JP" :> 10000 @@ "SG" :> 8000 @@ "KR" :> 10000

\* const CANADIAN_PROVINCIAL_TAX
CANADIAN_PROVINCIAL_TAX ==
  "AB" :> 0 @@ "BC" :> 7000 @@ "MB" :> 7000 @@ "NB" :> 10000 @@
  "NL" :> 10000 @@ "NT" :> 0 @@ "NS" :> 10000 @@ "NU" :> 0 @@
  "ON" :> 8000 @@ "PE" :> 10000 @@ "QC" :> 9975 @@ "SK" :> 6000 @@
  "YT" :> 0

\* const TAX_CATEGORIES: {taxable, reducedRate} of each category
TAX_CATEGORIES ==
  [c \in {"apparel", "digital", "prints", "accessories", "limited"} |->
     [taxable |-> TRUE, reducedRate |-> FALSE]]

\* new TaxCalculator([]): the singleton is built with no nexus state
nexusStates == {}

\* table[key] || 0
RateOf(table, key) == IF key \in DOMAIN table THEN table[key] ELSE 0

\* state?.toUpperCase(), on the codes the requests use
ToUpperCase(code) ==
  CASE code = "ny" -> "NY"
    [] code = "or" -> "OR"
    [] code = "on" -> "ON"
    [] code = "gb" -> "GB"
    [] OTHER -> code

\* Math.round(x), x in hundred-thousandths of a cent: a half goes up
MathRound(x) == (x + 50000) \div 100000

\* amount * rate * 100 is computed in IEEE doubles. The exact product is a
\* whole number of hundred-thousandths of a cent, so the double and the
\* exact product round to different cents only when the exact product is
\* an exact half cent and the double falls below it. These are the
\* operands <<a, b, rate>> of (a + b) * rate * 100, among the amounts of
\* TaxSubtotals and TaxShippings and the rates of the three tables, for
\* which it does, and the whole-dollar subtotals up to 600 taxed at the
\* 7.25% of California for which it does (the subtotals of the checkout
\* sessions are whole dollars):
\*   (0.01 + 5.99)  * 0.0725 * 100 = 43.49999999999999
\*   0.35           * 0.10   * 100 = 3.4999999999999996
\*   (19.99 + 5.99) * 0.25   * 100 = 649.4999999999999
\*   70             * 0.0725 * 100 = 507.49999999999994
WholeDollarsBelowHalf ==
  {2, 6, 14, 26, 30, 50, 54, 66, 70, 74, 78, 82, 114, 122, 130, 138, 166,
   174, 182, 190, 198, 206, 214, 226, 230, 242, 246, 258, 262, 274, 278,
   298, 314, 330, 346, 362, 366, 378, 382, 398, 414, 418, 430, 434, 442,
   462, 466, 470, 474, 498, 502, 506, 510, 530, 534, 538, 542, 546, 562,
   574, 578}

DoubleBelowHalf ==
  {<<1, 599, 7250>>, <<35, 0, 10000>>, <<1999, 599, 25000>>}
  \cup {<<d * 100, 0, 7250>> : d \in WholeDollarsBelowHalf}

\* Math.round(taxableAmount * rate * 100) / 100, in cents, taxableAmount
\* being a + b (b = 0 where the code adds nothing to a)
RoundedTax(a, b, rate) ==
  IF <<a, b, rate>> \in DoubleBelowHalf THEN MathRound((a + b) * rate) - 1
  ELSE MathRound((a + b) * rate)

\* const statesTaxingShipping
statesTaxingShipping ==
  {"AR", "CT", "DC", "GA", "HI", "IN", "KS", "KY", "MI", "MN", "MS", "NE",
   "NJ", "NM", "NY", "NC", "ND", "OH", "PA", "SD", "TN", "TX", "VT", "WA",
   "WV", "WI"}

\* statesTaxingShipping.includes(stateCode) ? subtotal + shipping : subtotal
TaxableAmountUS(stateCode, subtotal, shipping) ==
  IF stateCode \in statesTaxingShipping THEN subtotal + shipping
  ELSE subtotal

\* if (stateTaxRate === 0)
NoStateTaxNever(stateTaxRate) == FALSE
NoStateTax(stateTaxRate) == stateTaxRate = 0

\* a jurisdiction and a breakdown name are template strings: they are kept
\* as the sequence of their parts
calculateUSTax(result, state, shipping) ==
  LET stateCode == ToUpperCase(state)
      stateTaxRate == RateOf(US_STATE_TAX_RATES, stateCode)
      taxableAmount == TaxableAmountUS(stateCode, result.subtotal, shipping)
      taxAmount == RoundedTax(result.subtotal,
                              taxableAmount - result.subtotal, stateTaxRate)
  IN IF nexusStates # {} /\ stateCode \notin nexusStates
     THEN [result EXCEPT !.jurisdiction = <<stateCode, "No nexus">>]
     ELSE IF NoStateTax(stateTaxRate)
     THEN [result EXCEPT
             !.jurisdiction = <<stateCode, "No state sales tax">>]
     ELSE [result EXCEPT
             !.taxableAmount = taxableAmount,
             !.taxRate = stateTaxRate,
             !.taxAmount = taxAmount,
             !.total = result.subtotal + shipping + taxAmount,
             !.jurisdiction = <<stateCode>>,
             !.breakdown = Append(@, [name |-> <<stateCode,
                                                  "State Sales Tax">>,
                                      rate |-> stateTaxRate,
                                      amount |-> taxAmount])]

\* const gstRate = 0.05
gstRate == 5000

\* let taxName = 'PST'; if ([...].includes(provinceCode)) ... else if QC
ProvincialTaxName(provinceCode) ==
  IF provinceCode \in {"NB", "NL", "NS", "ON", "PE"}
  THEN "HST (provincial portion)"
  ELSE IF provinceCode = "QC" THEN "QST"
  ELSE "PST"

calculateCanadianTax(result, province, shipping) ==
  LET provinceCode == ToUpperCase(province)
      provincialRate == RateOf(CANADIAN_PROVINCIAL_TAX, provinceCode)
      taxableAmount == result.subtotal + shipping
      gstAmount == RoundedTax(result.subtotal, shipping, gstRate)
      pstAmount == RoundedTax(result.subtotal, shipping, provincialRate)
      totalTax == gstAmount + pstAmount
      gst == [name |-> <<"GST">>, rate |-> gstRate, amount |-> gstAmount]
      pst == [name |-> <<ProvincialTaxName(provinceCode)>>,
              rate |-> provincialRate, amount |-> pstAmount]
  IN [result EXCEPT
        !.taxableAmount = taxableAmount,
        !.taxRate = gstRate + provincialRate,
        !.taxAmount = totalTax,
        !.total = result.subtotal + shipping + totalTax,
        !.jurisdiction = <<"CA", provinceCode>>,
        !.breakdown = IF provincialRate > 0 THEN <<gst, pst>> ELSE <<gst>>]

calculateVAT(result, country, shipping) ==
  LET vatRate == RateOf(INTERNATIONAL_VAT_RATES, country)
      taxableAmount == result.subtotal + shipping
      vatAmount == RoundedTax(result.subtotal, shipping, vatRate)
  IN IF vatRate = 0 THEN result
     ELSE [result EXCEPT
             !.taxableAmount = taxableAmount,
             !.taxRate = vatRate,
             !.taxAmount = vatAmount,
             !.total = result.subtotal + shipping + vatAmount,
             !.jurisdiction = <<country>>,
             !.breakdown = Append(@, [name |-> <<"VAT">>, rate |-> vatRate,
                                      amount |-> vatAmount])]

\* TaxCalculator.calculate({subtotal, country, state, category, shipping})
calculate(p) ==
  LET result == [subtotal |-> p.subtotal, shipping |-> p.shipping,
                 taxableAmount |-> p.subtotal, taxRate |-> 0,
                 taxAmount |-> 0, total |-> p.subtotal + p.shipping,
                 breakdown |-> <<>>, jurisdiction |-> <<>>]
      categoryInfo == IF p.category \in DOMAIN TAX_CATEGORIES
                      THEN TAX_CATEGORIES[p.category]
                      ELSE TAX_CATEGORIES["apparel"]
  IN IF ~categoryInfo.taxable THEN result
     ELSE IF p.country = "US"
     THEN calculateUSTax(result, p.state, p.shipping)
     ELSE IF p.country = "CA"
     THEN calculateCanadianTax(result, p.state, p.shipping)
     ELSE IF RateOf(INTERNATIONAL_VAT_RATES, p.country) # 0
     THEN calculateVAT(result, p.country, p.shipping)
     ELSE result

\* ---- ShippingCalculator
\* The amounts of a quote are in tenths of a cent (5.99 is 5990) and a
\* weight is in quarter pounds, so that a surcharge is a whole number; a
\* subtotal is in cents as everywhere else.
\* const US_SHIPPING_ZONES
US_SHIPPING_ZONES ==
  <<{"CA", "NV", "AZ"},
    {"OR", "WA", "ID", "MT", "WY", "UT", "CO", "NM"},
    {"ND", "SD", "NE", "KS", "OK", "TX", "MN", "IA", "MO", "AR", "LA"},
    {"WI", "IL", "MI", "IN", "OH", "KY", "TN", "MS", "AL"},
    {"ME", "NH", "VT", "MA", "RI", "CT", "NY", "NJ", "PA", "DE", "MD", "DC",
     "VA", "WV", "NC", "SC", "GA", "FL"},
    {"AK", "HI", "PR", "VI", "GU", "AS"}>>

\* const INTERNATIONAL_ZONES
INTERNATIONAL_ZONES ==
  [A |-> {"CA", "MX"},
   B |-> {"GB", "DE", "FR", "NL", "BE", "AT", "CH", "IE", "DK", "SE", "NO",
          "FI"},
   C |-> {"PL", "CZ", "HU", "RO", "BG", "SK", "SI", "HR", "EE", "LV", "LT"},
   D |-> {"JP", "KR", "AU", "NZ", "SG", "HK", "TW"},
   E |-> {}]

\* const SHIPPING_RATES
SHIPPING_RATES ==
  [US |-> [standard |-> <<5990, 6990, 7990, 8990, 9990, 14990>>,
           express |-> <<12990, 14990, 16990, 18990, 19990, 29990>>,
           overnight |-> <<24990, 29990, 34990, 39990, 44990, 59990>>],
   international |->
     [standard |-> [A |-> 12990, B |-> 19990, C |-> 24990, D |-> 29990,
                    E |-> 34990],
      express |-> [A |-> 24990, B |-> 39990, C |-> 49990, D |-> 59990,
                   E |-> 69990]]]

\* const WEIGHT_SURCHARGES, per pound
WEIGHT_SURCHARGES == [US |-> 500, international |-> 1500]

\* const SHIPPING_METHODS
SHIPPING_METHODS ==
  [standard |-> [name |-> "Standard Shipping",
                 estimatedDays |-> [min |-> 5, max |-> 7]],
   express |-> [name |-> "Express Shipping",
                estimatedDays |-> [min |-> 2, max |-> 3]],
   overnight |-> [name |-> "Overnight Shipping",
                  estimatedDays |-> [min |-> 1, max |-> 1]]]

\* const INTERNATIONAL_METHODS
INTERNATIONAL_METHODS ==
  [standard |-> [name |-> "International Standard",
                 estimatedDays |-> [min |-> 10, max |-> 21]],
   express |-> [name |-> "International Express",
                estimatedDays |-> [min |-> 5, max |-> 10]]]

\* const FREE_SHIPPING, the thresholds in cents
FREE_SHIPPING ==
  [US |-> [threshold |-> 7500, method |-> "standard"],
   international |-> [threshold |-> 15000, method |-> "standard"]]

\* getUSZone(state): the first zone that lists the state, 5 by default
getUSZone(state) ==
  LET stateCode == ToUpperCase(state)
      zones == {z \in DOMAIN US_SHIPPING_ZONES :
                  stateCode \in US_SHIPPING_ZONES[z]}
  IN IF zones = {} THEN 5
     ELSE CHOOSE z \in zones : \A y \in zones : z <= y

\* getInternationalZone(country): the zone that lists the country, 'E' by
\* default (no country is listed twice)
getInternationalZoneE(country) == "E"
getInternationalZone(country) ==
  LET countryCode == ToUpperCase(country)
      zones == {z \in DOMAIN INTERNATIONAL_ZONES :
                  countryCode \in INTERNATIONAL_ZONES[z]}
  IN IF zones = {} THEN "E" ELSE CHOOSE z \in zones : TRUE

\* getAvailableMethods(country)
getAvailableMethods(country) ==
  IF country = "US" THEN <<"standard", "express", "overnight">>
  ELSE <<"standard", "express">>

\* subtotal >= threshold
EligibleAlways(subtotal, threshold) == TRUE
Eligible(subtotal, threshold) == subtotal >= threshold

\* eligible ? 0 : Math.round((threshold - subtotal) * 100) / 100; on
\* amounts in whole cents the rounding returns the difference itself
AmountUntilFreeRaw(eligible, threshold, subtotal) == threshold - subtotal
AmountUntilFree(eligible, threshold, subtotal) ==
  IF eligible THEN 0 ELSE threshold - subtotal

\* checkFreeShipping(country, subtotal, requestedMethod); the message
\* text is left out
checkFreeShipping(options, country, subtotal) ==
  LET free == IF country = "US" THEN FREE_SHIPPING.US
              ELSE FREE_SHIPPING.international
      eligible == Eligible(subtotal, free.threshold)
  IN IF ~options.freeShippingEnabled THEN [eligible |-> FALSE]
     ELSE [eligible |-> eligible,
           threshold |-> free.threshold,
           method |-> free.method,
           amountUntilFree |-> AmountUntilFree(eligible, free.threshold,
                                               subtotal)]

\* baseRate + weightSurcharge + handlingFee is summed in IEEE doubles and
\* Math.round(total * 100) rounds it to the cent. The double and the exact
\* sum round to different cents only when the exact sum ends in half a
\* cent and the double product falls below it. These are the operands
\* <<baseRate, weightSurcharge, handlingFee>>, among those of ShipRequests
\* and ShipOptions, for which it does:
\*   (16.99 + 0.125) * 100       = 1711.4999999999998
\*   (16.99 + 0.125 + 2.5) * 100 = 1961.4999999999998
\*   (18.99 + 0.125) * 100       = 1911.4999999999998
\*   (19.99 + 0.125) * 100       = 2011.4999999999998
\*   (19.99 + 0.375) * 100       = 2036.4999999999998
\*   (29.99 + 0.125 + 2.5) * 100 = 3261.4999999999995
\*   (29.99 + 0.375 + 2.5) * 100 = 3286.4999999999995
\*   (69.99 + 0.375) * 100       = 7036.499999999999
\*   (69.99 + 0.375 + 2.5) * 100 = 7286.499999999999
TotalBelowHalf ==
  {<<16990, 125, 0>>, <<16990, 125, 2500>>, <<18990, 125, 0>>,
   <<19990, 125, 0>>, <<19990, 375, 0>>, <<29990, 125, 2500>>,
   <<29990, 375, 2500>>, <<69990, 375, 0>>, <<69990, 375, 2500>>}

\* Math.round(total * 100) / 100, total being the sum of the operands or
\* the 0 of free shipping
RoundedTotal(total, baseRate, weightSurcharge, handlingFee) ==
  IF total # 0 /\ <<baseRate, weightSurcharge, handlingFee>> \in TotalBelowHalf
  THEN ((total + 5) \div 10) * 10 - 10
  ELSE ((total + 5) \div 10) * 10

\* Math.max(0, weight - 1), in quarter pounds
ExtraWeightSigned(weight) == weight - 4
ExtraWeight(weight) == IF weight - 4 > 0 THEN weight - 4 ELSE 0

\* calculate({country, state, weight = 1, subtotal = 0, method =
\* 'standard'}) of a calculator built with the options, called at time
\* today
ShippingCalculate(options, p, today) ==
  LET isUS == p.country = "US"
      availableMethods == getAvailableMethods(p.country)
      freeShipping == checkFreeShipping(options, p.country, p.subtotal)
      zone == IF isUS THEN getUSZone(p.state)
              ELSE getInternationalZone(p.country)
      rates == IF isUS THEN SHIPPING_RATES.US
               ELSE SHIPPING_RATES.international
      baseRate == IF p.method \in DOMAIN rates THEN rates[p.method][zone]
                  ELSE rates.standard[zone]
      extraWeight == ExtraWeight(p.weight)
      weightSurcharge ==
        (extraWeight * (IF isUS THEN WEIGHT_SURCHARGES.US
                        ELSE WEIGHT_SURCHARGES.international)) \div 4
      sum == baseRate + weightSurcharge + options.handlingFee
      total == IF freeShipping.eligible /\ p.method = freeShipping.method
               THEN 0 ELSE sum
      methods == IF isUS THEN SHIPPING_METHODS ELSE INTERNATIONAL_METHODS
      known == p.method \in DOMAIN methods
  IN [method |-> p.method,
      methodName |-> IF known THEN methods[p.method].name
                     ELSE "Standard Shipping",
      zone |-> zone,
      baseRate |-> baseRate,
      weightSurcharge |-> weightSurcharge,
      handlingFee |-> options.handlingFee,
      total |-> RoundedTotal(total, baseRate, weightSurcharge,
                             options.handlingFee),
      freeShipping |-> freeShipping,
      deliveryEstimate |->
        GetDeliveryEstimate(IF known THEN methods[p.method].estimatedDays
                            ELSE [min |-> 5, max |-> 10], today),
      availableMethods |-> availableMethods]

\* ---- the pricing of a checkout session
\* req.body.shippingAddress and shippingMethod: the checkout requests ship
\* to California by the standard method; the other destinations and
\* methods are those of the calls of the two calculators
ShippingAddress == [country |-> "US", state |-> "CA"]
ShippingMethod == "standard"

\* export const shippingCalculator = new ShippingCalculator()
DefaultOptions == [freeShippingEnabled |-> TRUE, handlingFee |-> 0]

\* totalWeight += (product.weight || 0.5) * item.quantity, in quarter
\* pounds: products has no weight column, so each unit weighs 0.5
RECURSIVE TotalWeight(_)
TotalWeight(items) ==
  IF items = <<>> THEN 0
  ELSE 2 * items[1].quantity + TotalWeight(Tail(items))

\* const total = subtotal + shipping.total + tax.taxAmount
SessionTotal(subtotal, shippingTotal, taxAmount) ==
  subtotal + shippingTotal + taxAmount

\* shippingCalculator.calculate, taxCalculator.calculate and the total of
\* /create-session; the prices are whole dollars and the columns computed
\* here are in cents
SessionPricing(items, subtotal, today) ==
  LET shipping == ShippingCalculate(DefaultOptions,
                                    [country |-> ShippingAddress.country,
                                     state |-> ShippingAddress.state,
                                     weight |-> TotalWeight(items),
                                     subtotal |-> subtotal * 100,
                                     method |-> ShippingMethod], today)
      tax == calculate([subtotal |-> subtotal * 100,
                        country |-> ShippingAddress.country,
                        state |-> ShippingAddress.state,
                        category |-> "apparel",
                        shipping |-> shipping.total \div 10])
  IN [shipping_cost |-> shipping.total \div 10,
      shipping_method |-> ShippingMethod,
      tax_amount |-> tax.taxAmount,
      total |-> SessionTotal(subtotal * 100, shipping.total \div 10,
                             tax.taxAmount)]

\* ------------------------------------------------------------- handlers
\* a response that carries no breakdown
NoBody == [items |-> <<>>, subtotal |-> 0]

\* a handler slot: the request (kind, sid, cart), the handler's locals and,
\* once pc = "done", the response
Idle == [kind |-> "idle", pc |-> "idle", sid |-> 0, cart |-> <<>>, i |-> 0,
         items |-> <<>>, subtotal |-> 0, session |-> NullSession,
         resp |-> 0, error |-> "", body |-> NoBody,
         orderNumber |-> 0, notify |-> "none"]

\* a request takes the lowest free slot (the slots are interchangeable)
Free(r) == /\ req[r] = Idle
           /\ \A r2 \in Reqs : r2 < r => req[r2] # Idle

\* req.body as the handler receives it
Request(kind, sid, pc) ==
  [Idle EXCEPT !.kind = kind, !.sid = sid, !.pc = pc]

\* res.status(code).json({error}) / res.json({...}): the handler ends
Respond(q, code, err, body, ord, outcome) ==
  [Idle EXCEPT !.kind = q.kind, !.pc = "done", !.sid = q.sid,
               !.cart = q.cart, !.resp = code, !.error = err,
               !.body = body, !.orderNumber = ord, !.notify = outcome]

\* handler r moves to q: a handler that has responded leaves its slot and
\* its response is out
Becomes(r, q) ==
  /\ req' = [req EXCEPT ![r] = IF q.pc = "done" THEN Idle ELSE q]
  /\ out' = IF q.pc = "done" THEN q ELSE Idle

\* handlers that have not yet issued their INSERT
PendingInserts(kinds, pcs) ==
  Cardinality({r \in Reqs : req[r].kind \in kinds /\ req[r].pc \in pcs})

Init ==
  /\ products = InitProducts
  /\ checkout_sessions = {}
  /\ orders = <<>>
  /\ req = [r \in Reqs |-> Idle]
  /\ out = Idle
  /\ now = 0
  /\ nextSid = 1
  /\ decremented = [p \in DOMAIN InitProducts |-> 0]
  /\ lineDecs = [s \in SessionIds |-> [i \in 1..MaxCartLen |-> 0]]

\* the clock of NOW()
Tick ==
  /\ now < MaxTime
  /\ now' = now + 1
  /\ out' = Idle
  /\ UNCHANGED <<products, checkout_sessions, orders, req, nextSid,
                 decremented, lineDecs>>

\* ---- POST /checkout/calculate
\* A request's cart is revealed to the model line by line, as the handler's
\* loop reads it: q.cart is the lines read so far, `line` the one read now
\* and `last` whether the loop ends with it.
More(q, last) == /\ Len(q.cart) < MaxCartLen
                 /\ (Len(q.cart) + 1 = MaxCartLen) => last

\* one turn of `for (const item of items)`: the awaited db.get and the
\* code up to the next await (the response, after the last item).  The
\* response carries shipping.deliveryEstimate, computed from the time of
\* the response (the request asks for standard shipping, the default).
QuoteLine(q, line, last) ==
  LET product == ProductGet(line.productId)
      read == [q EXCEPT !.cart = Append(@, line)]
      items2 == Append(q.items, OrderItem(product, line))
      sub2 == q.subtotal + product.price * line.quantity
  IN IF ProductMissing(product)
     THEN Respond(read, 400, "product_not_found", NoBody, 0, "none")
     ELSE IF last
     THEN Respond(read, 200, "",
                  [items |-> items2, subtotal |-> sub2,
                   deliveryEstimate |->
                     GetDeliveryEstimate(StandardDays, now)],
                  0, "none")
     ELSE [read EXCEPT !.items = items2, !.subtotal = sub2]

\* the request arrives and the handler runs to the answer of its first query
Quote(r, line, last) ==
  /\ Free(r)
  /\ More(Idle, last)
  /\ Becomes(r, QuoteLine(Request("quote", 0, "validate"), line, last))
  /\ UNCHANGED <<products, checkout_sessions, orders, now, nextSid,
                 decremented, lineDecs>>

QuoteValidate(r, line, last) ==
  /\ req[r].kind = "quote" /\ req[r].pc = "validate"
  /\ More(req[r], last)
  /\ Becomes(r, QuoteLine(req[r], line, last))
  /\ UNCHANGED <<products, checkout_sessions, orders, now, nextSid,
                 decremented, lineDecs>>

\* ---- POST /checkout/create-session
\* one turn of the validation loop of create-session and of shop orders:
\* product lookup, stock check, accumulation
ValidateLine(q, line, last, nextPc) ==
  LET product == ProductGet(line.productId)
      read == [q EXCEPT !.cart = Append(@, line)]
      items2 == Append(q.items, OrderItem(product, line))
      sub2 == q.subtotal + product.price * line.quantity
  IN IF ProductMissing(product)
     THEN Respond(read, 400, "product_not_found", NoBody, 0, "none")
     ELSE IF InsufficientStock(product, line)
     THEN Respond(read, 400, "insufficient_stock", NoBody, 0, "none")
     ELSE [read EXCEPT !.pc = IF last THEN nextPc ELSE @,
                       !.items = items2, !.subtotal = sub2]

CreateSession(r, line, last) ==
  /\ Free(r)
  /\ More(Idle, last)
  /\ (nextSid - 1) + PendingInserts({"create"}, {"validate", "store"})
       < MaxSessions
  /\ Becomes(r, ValidateLine(Request("create", 0, "validate"), line, last,
                             "store"))
  /\ UNCHANGED <<products, checkout_sessions, orders, now, nextSid,
                 decremented, lineDecs>>

CreateValidate(r, line, last) ==
  /\ req[r].kind = "create" /\ req[r].pc = "validate"
  /\ More(req[r], last)
  /\ Becomes(r, ValidateLine(req[r], line, last, "store"))
  /\ UNCHANGED <<products, checkout_sessions, orders, now, nextSid,
                 decremented, lineDecs>>

\* INSERT INTO checkout_sessions (...), then the response; the session id
\* is a fresh uuid
CreateStore(r) ==
  /\ req[r].kind = "create" /\ req[r].pc = "store"
  /\ LET pricing == SessionPricing(req[r].items, req[r].subtotal, now)
     IN checkout_sessions' =
          SessionInsert(checkout_sessions,
                        [session_id |-> nextSid, items |-> req[r].items,
                         subtotal |-> req[r].subtotal,
                         shipping_cost |-> pricing.shipping_cost,
                         shipping_method |-> pricing.shipping_method,
                         tax_amount |-> pricing.tax_amount,
                         total |-> pricing.total,
                         expires_at |-> now + TTL])
  /\ nextSid' = nextSid + 1
  /\ Becomes(r, [Respond(req[r], 200, "",
                         [items |-> req[r].items,
                          subtotal |-> req[r].subtotal], 0, "none")
                   EXCEPT !.sid = nextSid])
  /\ UNCHANGED <<products, orders, now, decremented, lineDecs>>

\* ---- POST /checkout/complete
\* const session = await db.get(...); if (!session) return 404
LookupSession(q) ==
  LET session == SessionGet(q.sid)
  IN IF session = NullSession
     THEN Respond(q, 404, "session_not_found", NoBody, 0, "none")
     ELSE [q EXCEPT !.session = session, !.pc = "insert"]

Complete(r, sid) ==
  /\ Free(r)
  /\ \/ SessionGet(sid) = NullSession
     \/ Len(orders) + PendingInserts({"complete", "order"},
                                     {"validate", "insert"})
          < MaxOrders
  /\ Becomes(r, LookupSession(Request("complete", sid, "lookup")))
  /\ UNCHANGED <<products, checkout_sessions, orders, now, nextSid,
                 decremented, lineDecs>>

\* the row of INSERT INTO orders (...) VALUES (..., 'paid'): the values
\* are those of the session row the handler read.  from_session is not a
\* column: it records which session row the order was made from.
PaidOrderRepriced(n, session) ==
  [order_number |-> n, from_session |-> session.session_id,
   items |-> [i \in DOMAIN session.items |->
                [session.items[i] EXCEPT
                   !.price = products[session.items[i].productId].price]],
   subtotal |-> session.subtotal, status |-> "paid"]
PaidOrder(n, session) ==
  [order_number |-> n, from_session |-> session.session_id,
   items |-> session.items, subtotal |-> session.subtotal,
   status |-> "paid"]

\* INSERT INTO orders (...) VALUES (..., 'paid'); the order number is a
\* fresh uuid prefix.
CompleteInsert(r) ==
  /\ req[r].kind = "complete" /\ req[r].pc = "insert"
  /\ LET session == req[r].session
         first == NextPhysical(session.items, 1)
     IN /\ orders' = Append(orders, PaidOrder(Len(orders) + 1, session))
        /\ Becomes(r, [req[r] EXCEPT !.orderNumber = Len(orders) + 1,
                                     !.items = session.items,
                                     !.i = first,
                                     !.pc = IF first <= Len(session.items)
                                            THEN "stock" ELSE "delete"])
  /\ UNCHANGED <<products, checkout_sessions, now, nextSid,
                 decremented, lineDecs>>

\* one awaited UPDATE of the inventory loop, and the skipping of the
\* digital items up to the next awaited statement
StockStep(r, nextPc) ==
  LET item == req[r].items[req[r].i]
      next == NextPhysical(req[r].items, req[r].i + 1)
  IN /\ products' = DecrementStock(item.productId, item.quantity)
     /\ decremented' = [decremented EXCEPT ![item.productId] =
                          @ + item.quantity]
     /\ Becomes(r, [req[r] EXCEPT !.i = next,
                                  !.pc = IF next <= Len(req[r].items)
                                         THEN @ ELSE nextPc])

CompleteStock(r) ==
  /\ req[r].kind = "complete" /\ req[r].pc = "stock"
  /\ StockStep(r, "delete")
  /\ lineDecs' = [lineDecs EXCEPT ![req[r].session.session_id][req[r].i] =
                    @ + 1]
  /\ UNCHANGED <<checkout_sessions, orders, now, nextSid>>

\* DELETE FROM checkout_sessions WHERE session_id = ?
CompleteDelete(r) ==
  /\ req[r].kind = "complete" /\ req[r].pc = "delete"
  /\ checkout_sessions' = SessionDelete(checkout_sessions, req[r].sid)
  /\ Becomes(r, [req[r] EXCEPT !.pc = "notify"])
  /\ UNCHANGED <<products, orders, now, nextSid, decremented, lineDecs>>

\* what `await sendOrderConfirmation({...})` can do in /checkout/complete:
\* the mail is sent, or sendEmail catches the transport error and returns
\* {success: false}, or the body of sendOrderConfirmation throws before
\* sendEmail is reached (JSON.parse and toFixed run outside any try, on
\* values read back from checkout_sessions)
CompleteNotifyOutcomes == {"sent", "failed", "threw"}
\* in /shop/orders it is given the handler's own numbers and JSON string
OrderNotifyOutcomes == {"sent", "failed"}

\* await sendOrderConfirmation({...}) and the response; a throw rejects the
\* await and lands in the handler's catch, which answers 500
CompleteNotify(r) ==
  /\ req[r].kind = "complete" /\ req[r].pc = "notify"
  /\ \E outcome \in CompleteNotifyOutcomes :
       Becomes(r, IF outcome = "threw"
                  THEN Respond(req[r], 500, "failed_to_complete", NoBody,
                               req[r].orderNumber, outcome)
                  ELSE Respond(req[r], 200, "",
                               [items |-> req[r].items,
                                subtotal |-> req[r].session.subtotal],
                               req[r].orderNumber, outcome))
  /\ UNCHANGED <<products, checkout_sessions, orders, now, nextSid,
                 decremented, lineDecs>>

\* ---- POST /shop/orders
ShopOrder(r, line, last) ==
  /\ Free(r)
  /\ More(Idle, last)
  /\ Len(orders) + PendingInserts({"complete", "order"},
                                  {"validate", "insert"})
       < MaxOrders
  /\ Becomes(r, ValidateLine(Request("order", 0, "validate"), line, last,
                             "insert"))
  /\ UNCHANGED <<products, checkout_sessions, orders, now, nextSid,
                 decremented, lineDecs>>

OrderValidate(r, line, last) ==
  /\ req[r].kind = "order" /\ req[r].pc = "validate"
  /\ More(req[r], last)
  /\ Becomes(r, ValidateLine(req[r], line, last, "insert"))
  /\ UNCHANGED <<products, checkout_sessions, orders, now, nextSid,
                 decremented, lineDecs>>

\* INSERT INTO orders (...): status takes the column default 'pending'
OrderInsert(r) ==
  /\ req[r].kind = "order" /\ req[r].pc = "insert"
  /\ LET first == NextPhysical(req[r].items, 1)
     IN /\ orders' = Append(orders,
             [order_number |-> Len(orders) + 1, from_session |-> 0,
              items |-> req[r].items, subtotal |-> req[r].subtotal,
              status |-> "pending"])
        /\ Becomes(r, [req[r] EXCEPT !.orderNumber = Len(orders) + 1,
                                     !.i = first,
                                     !.pc = IF first <= Len(req[r].items)
                                            THEN "stock" ELSE "notify"])
  /\ UNCHANGED <<products, checkout_sessions, now, nextSid,
                 decremented, lineDecs>>

OrderStock(r) ==
  /\ req[r].kind = "order" /\ req[r].pc = "stock"
  /\ StockStep(r, "notify")
  /\ UNCHANGED <<checkout_sessions, orders, now, nextSid, lineDecs>>

\* await sendOrderConfirmation({...}), then 201
OrderNotify(r) ==
  /\ req[r].kind = "order" /\ req[r].pc = "notify"
  /\ \E outcome \in OrderNotifyOutcomes :
       Becomes(r, Respond(req[r], 201, "",
                          [items |-> req[r].items,
                           subtotal |-> req[r].subtotal],
                          req[r].orderNumber, outcome))
  /\ UNCHANGED <<products, checkout_sessions, orders, now, nextSid,
                 decremented, lineDecs>>

\* pool.execute rejects (connection lost, deadlock, ...): the awaited
\* statement has no effect, the handler's catch answers 500 and nothing
\* the handler wrote before is undone (no handler uses db.transaction)
DbStatements == {"validate", "store", "insert", "stock", "delete"}

DbFail(r) ==
  /\ req[r].pc \in DbStatements
  /\ Becomes(r, Respond(req[r], 500, "db_error", NoBody, 0, "none"))
  /\ UNCHANGED <<products, checkout_sessions, orders, now, nextSid,
                 decremented, lineDecs>>

\* ---- PATCH /api/admin/products/:id
\* the fields an admin request sets: the price or the inventory count of
\* the physical product
NewPrice == 40
ProductPatches == {[field |-> "price", value |-> NewPrice],
                   [field |-> "inventory_count", value |-> InitStock]}

\* UPDATE products SET <field> = ? WHERE id = ?; res.json
AdminProductUpdate(id, patch) ==
  /\ id \in DOMAIN products
  /\ products' =
       IF patch.field = "price"
       THEN [products EXCEPT ![id].price = patch.value]
       ELSE IF patch.field = "is_active"
       THEN [products EXCEPT ![id].is_active = patch.value]
       ELSE [products EXCEPT ![id].inventory_count = patch.value]
  /\ out' = Respond(Request("admin_product", id, "update"), 200, "",
                    NoBody, 0, "none")
  /\ UNCHANGED <<checkout_sessions, orders, req, now, nextSid,
                 decremented, lineDecs>>

\* isActive: false
RetirePatches == {[field |-> "is_active", value |-> FALSE]}

\* ---- DELETE /api/admin/products/:id
\* DELETE FROM products WHERE id = ?; res.json
AdminProductDelete(id) ==
  /\ id \in DOMAIN products
  /\ products' = [p \in DOMAIN products \ {id} |-> products[p]]
  /\ out' = Respond(Request("admin_product", id, "delete"), 200, "",
                    NoBody, 0, "none")
  /\ UNCHANGED <<checkout_sessions, orders, req, now, nextSid,
                 decremented, lineDecs>>

\* ---- PATCH /api/admin/orders/:id
\* const validStatuses = [...]
ValidStatuses == {"pending", "processing", "shipped", "delivered",
                  "cancelled"}
\* the statuses an admin request asks for
StatusInputs == {"shipped", "paid", "refunded"}

\* if (!validStatuses.includes(status)) return 400
ValidStatusAny(status) == TRUE
ValidStatus(status) == status \in ValidStatuses

\* UPDATE orders SET status = ?, updated_at = ... WHERE id = ?
OrderSetStatusAll(rows, id, status) ==
  [n \in DOMAIN rows |-> [rows[n] EXCEPT !.status = status]]
OrderSetStatus(rows, id, status) ==
  [n \in DOMAIN rows |->
     IF n = id THEN [rows[n] EXCEPT !.status = status] ELSE rows[n]]

\* the handler has one await: the UPDATE, then res.json; the UPDATE of an
\* id with no row changes nothing and is answered 200 all the same.  The
\* response's orderNumber is not in the answer: it records req.params.id.
AdminOrderUpdate(id, status) ==
  /\ IF ValidStatus(status)
     THEN /\ orders' = OrderSetStatus(orders, id, status)
          /\ out' = Respond(Request("admin_order", 0, "update"), 200, "",
                            NoBody, id, "none")
     ELSE /\ orders' = orders
          /\ out' = Respond(Request("admin_order", 0, "update"), 400,
                            "invalid_status", NoBody, id, "none")
  /\ UNCHANGED <<products, checkout_sessions, req, now, nextSid,
                 decremented, lineDecs>>

\* ---- POST /checkout/calculate-tax
\* the bodies the validators admit: subtotal and shipping are floats >= 0,
\* country is not empty, state and category are free
MaxTaxSubtotal == 40
TaxSubtotals == 0..MaxTaxSubtotal \cup {1999, 7000}
TaxShippings == {0, 599}
TaxRequests ==
  [subtotal : TaxSubtotals, shipping : TaxShippings, country : {"US"},
   state : DOMAIN US_STATE_TAX_RATES \cup {"ZZ", "ny", "or"},
   category : {"apparel"}]
  \cup
  [subtotal : TaxSubtotals, shipping : TaxShippings, country : {"CA"},
   state : DOMAIN CANADIAN_PROVINCIAL_TAX \cup {"ZZ", "on"},
   category : {"digital"}]
  \cup
  [subtotal : TaxSubtotals, shipping : TaxShippings,
   country : DOMAIN INTERNATIONAL_VAT_RATES \cup {"BR"},
   state : {""}, category : {"stickers"}]

\* a request of /calculate-tax has arrived
InitTax ==
  /\ products = InitProducts
  /\ checkout_sessions = {}
  /\ orders = <<>>
  /\ \E p \in TaxRequests :
       req = [r \in Reqs |-> IF r = 1
                              THEN [kind |-> "tax", pc |-> "calculate",
                                    request |-> p]
                              ELSE Idle]
  /\ out = Idle
  /\ now = 0
  /\ nextSid = 1
  /\ decremented = [p \in DOMAIN InitProducts |-> 0]
  /\ lineDecs = [s \in SessionIds |-> [i \in 1..MaxCartLen |-> 0]]

\* the handler has no await: res.json(taxCalculator.calculate({...}))
CalculateTax(r) ==
  /\ req[r].kind = "tax" /\ req[r].pc = "calculate"
  /\ req' = [req EXCEPT ![r] = Idle]
  /\ out' = [kind |-> "tax", request |-> req[r].request, resp |-> 200,
             body |-> calculate(req[r].request)]
  /\ UNCHANGED <<products, checkout_sessions, orders, now, nextSid,
                 decremented, lineDecs>>

\* ---- a call of ShippingCalculator.calculate
\* new ShippingCalculator(options): free shipping on or off, a handling
\* fee of 0 or 2.50
ShipOptions == [freeShippingEnabled : BOOLEAN, handlingFee : {0, 2500}]

\* weights of 0, 0.5, 1, 1.25, 1.5 and 3 pounds; subtotals on both sides of
\* the two thresholds
ShipWeights == {0, 2, 4, 5, 6, 12}
ShipSubtotals == {0, 7499, 7500, 14999, 15000}
ShipMethods == {"standard", "express", "overnight"}
\* every listed state, an unlisted one, a lower-case one and a missing one
ShipStates ==
  UNION {US_SHIPPING_ZONES[z] : z \in DOMAIN US_SHIPPING_ZONES}
  \cup {"ZZ", "or", ""}
\* every listed country, an unlisted one and a lower-case one
ShipCountries ==
  UNION {INTERNATIONAL_ZONES[z] : z \in DOMAIN INTERNATIONAL_ZONES}
  \cup {"BR", "gb"}
ShipRequests ==
  [country : {"US"}, state : ShipStates,
   weight : ShipWeights, subtotal : ShipSubtotals, method : ShipMethods]
  \cup
  [country : ShipCountries, state : {""},
   weight : ShipWeights, subtotal : ShipSubtotals, method : ShipMethods]

\* a calculator has been built and a call of calculate is about to run
InitShip ==
  /\ products = InitProducts
  /\ checkout_sessions = {}
  /\ orders = <<>>
  /\ \E options \in ShipOptions, p \in ShipRequests :
       req = [r \in Reqs |-> IF r = 1
                              THEN [kind |-> "shipping", pc |-> "calculate",
                                    options |-> options, request |-> p]
                              ELSE Idle]
  /\ out = Idle
  /\ now = 0
  /\ nextSid = 1
  /\ decremented = [p \in DOMAIN InitProducts |-> 0]
  /\ lineDecs = [s \in SessionIds |-> [i \in 1..MaxCartLen |-> 0]]

\* calculate has no await: the quote is returned in one step
ShippingQuote(r) ==
  /\ req[r].kind = "shipping" /\ req[r].pc = "calculate"
  /\ req' = [req EXCEPT ![r] = Idle]
  /\ out' = [kind |-> "shipping", request |-> req[r].request,
             options |-> req[r].options, resp |-> 200,
             body |-> ShippingCalculate(req[r].options, req[r].request,
                                        now)]
  /\ UNCHANGED <<products, checkout_sessions, orders, now, nextSid,
                 decremented, lineDecs>>

\* ---- a call of ShippingCalculator.getAllRates
\* (a, b) => a.total - b.total: a stays before b unless it costs more
CostsMoreReversed(a, b) == a.total < b.total
CostsMore(a, b) == a.total > b.total

\* rates.sort(...): the sort is stable, so a quote goes behind the quotes
\* before it that do not cost more
RECURSIVE InsertRate(_, _)
InsertRate(rate, sorted) ==
  IF sorted = <<>> THEN <<rate>>
  ELSE IF CostsMore(sorted[Len(sorted)], rate)
  THEN Append(InsertRate(rate, SubSeq(sorted, 1, Len(sorted) - 1)),
              sorted[Len(sorted)])
  ELSE Append(sorted, rate)

RECURSIVE SortRates(_)
SortRates(rates) ==
  IF rates = <<>> THEN <<>>
  ELSE InsertRate(rates[Len(rates)],
                  SortRates(SubSeq(rates, 1, Len(rates) - 1)))

\* getAllRates({country, state, weight = 1, subtotal = 0})
getAllRates(options, p, today) ==
  LET methods == getAvailableMethods(p.country)
      rates == [i \in DOMAIN methods |->
                  ShippingCalculate(options,
                                    [country |-> p.country,
                                     state |-> p.state,
                                     weight |-> p.weight,
                                     subtotal |-> p.subtotal,
                                     method |-> methods[i]], today)]
  IN SortRates(rates)

RatesRequests ==
  [country : {"US"}, state : ShipStates, weight : ShipWeights,
   subtotal : ShipSubtotals]
  \cup
  [country : ShipCountries, state : {""}, weight : ShipWeights,
   subtotal : ShipSubtotals]

\* a calculator has been built and a call of getAllRates is about to run
InitRates ==
  /\ products = InitProducts
  /\ checkout_sessions = {}
  /\ orders = <<>>
  /\ \E options \in ShipOptions, p \in RatesRequests :
       req = [r \in Reqs |-> IF r = 1
                              THEN [kind |-> "rates", pc |-> "getAllRates",
                                    options |-> options, request |-> p]
                              ELSE Idle]
  /\ out = Idle
  /\ now = 0
  /\ nextSid = 1
  /\ decremented = [p \in DOMAIN InitProducts |-> 0]
  /\ lineDecs = [s \in SessionIds |-> [i \in 1..MaxCartLen |-> 0]]

\* getAllRates has no await: the quotes are returned in one step
ShippingRates(r) ==
  /\ req[r].kind = "rates" /\ req[r].pc = "getAllRates"
  /\ req' = [req EXCEPT ![r] = Idle]
  /\ out' = [kind |-> "rates", request |-> req[r].request,
             options |-> req[r].options, resp |-> 200,
             body |-> getAllRates(req[r].options, req[r].request, now)]
  /\ UNCHANGED <<products, checkout_sessions, orders, now, nextSid,
                 decremented, lineDecs>>

\* the steps of each route
QuoteSteps ==
  \/ \E r \in Reqs, line \in CartLines, last \in BOOLEAN :
       Quote(r, line, last)
  \/ \E r \in Reqs, line \in CartLines, last \in BOOLEAN :
       QuoteValidate(r, line, last)

CreateSteps ==
  \/ \E r \in Reqs, line \in CartLines, last \in BOOLEAN :
       CreateSession(r, line, last)
  \/ \E r \in Reqs, line \in CartLines, last \in BOOLEAN :
       CreateValidate(r, line, last)
  \/ \E r \in Reqs : CreateStore(r)

CompleteSteps ==
  \/ \E r \in Reqs, sid \in SessionIds : Complete(r, sid)
  \/ \E r \in Reqs : CompleteInsert(r)
  \/ \E r \in Reqs : CompleteStock(r)
  \/ \E r \in Reqs : CompleteDelete(r)
  \/ \E r \in Reqs : CompleteNotify(r)

OrderSteps ==
  \/ \E r \in Reqs, line \in CartLines, last \in BOOLEAN :
       ShopOrder(r, line, last)
  \/ \E r \in Reqs, line \in CartLines, last \in BOOLEAN :
       OrderValidate(r, line, last)
  \/ \E r \in Reqs : OrderInsert(r)
  \/ \E r \in Reqs : OrderStock(r)
  \/ \E r \in Reqs : OrderNotify(r)

\* the checkout: sessions are created and completed while the clock runs
Next ==
  \/ CreateSteps
  \/ CompleteSteps
  \/ Tick

Spec == Init /\ [][Next]_vars

\* the checkout next to the shop's direct orders
NextShop ==
  \/ CreateSteps
  \/ CompleteSteps
  \/ OrderSteps

SpecShop == Init /\ [][NextShop]_vars

\* the checkout next to the quotes
NextQuote ==
  \/ QuoteSteps
  \/ CreateSteps
  \/ CompleteSteps

SpecQuote == Init /\ [][NextQuote]_vars

\* the checkout over a database whose statements may fail
NextFail ==
  \/ CreateSteps
  \/ CompleteSteps
  \/ \E r \in Reqs : DbFail(r)

SpecFail == Init /\ [][NextFail]_vars

\* ---- carts as the validators of the checkout routes let them through
\* /calculate and /create-session validate items with isArray({min: 1})
\* only: no validator reads items.*.quantity, so a line may carry zero or
\* a negative quantity.  (/shop/orders has items.*.quantity isInt({min: 1}).)
LooseQuantities == {0 - 1, 0}
LooseLines ==
  [productId : {1}, quantity : LooseQuantities \cup {InitStock}]

QuoteStepsLoose ==
  \/ \E r \in Reqs, line \in LooseLines, last \in BOOLEAN :
       Quote(r, line, last)
  \/ \E r \in Reqs, line \in LooseLines, last \in BOOLEAN :
       QuoteValidate(r, line, last)

CreateStepsLoose ==
  \/ \E r \in Reqs, line \in LooseLines, last \in BOOLEAN :
       CreateSession(r, line, last)
  \/ \E r \in Reqs, line \in LooseLines, last \in BOOLEAN :
       CreateValidate(r, line, last)
  \/ \E r \in Reqs : CreateStore(r)

\* the checkout with the quantities the validators do not exclude
NextLoose ==
  \/ QuoteStepsLoose
  \/ CreateStepsLoose
  \/ CompleteSteps

SpecLoose == Init /\ [][NextLoose]_vars

\* the quotes next to the shop's direct orders while the clock runs
NextClock ==
  \/ QuoteSteps
  \/ OrderSteps
  \/ Tick

SpecClock == Init /\ [][NextClock]_vars

\* the checkout while an admin edits the catalog
NextReprice ==
  \/ CreateSteps
  \/ CompleteSteps
  \/ \E patch \in ProductPatches : AdminProductUpdate(1, patch)

SpecReprice == Init /\ [][NextReprice]_vars

\* one-line carts naming an active product, the physical one or the
\* digital one: the validation loop ends with its first turn
PlainLines == {l \in CartLines : l.productId \in {1, 2}}

CreateStepsPlain ==
  \/ \E r \in Reqs, line \in PlainLines : CreateSession(r, line, TRUE)
  \/ \E r \in Reqs : CreateStore(r)

OrderStepsPlain ==
  \/ \E r \in Reqs, line \in PlainLines : ShopOrder(r, line, TRUE)
  \/ \E r \in Reqs : OrderInsert(r)
  \/ \E r \in Reqs : OrderStock(r)
  \/ \E r \in Reqs : OrderNotify(r)

\* orders from the checkout and from the shop while an admin updates
\* their status
NextStatus ==
  \/ CreateStepsPlain
  \/ CompleteSteps
  \/ OrderStepsPlain
  \/ \E id \in 1..MaxOrders, status \in StatusInputs :
       AdminOrderUpdate(id, status)

SpecStatus == Init /\ [][NextStatus]_vars

\* sessions completed while an admin deactivates or deletes the physical
\* product
NextRetire ==
  \/ CreateStepsPlain
  \/ CompleteSteps
  \/ \E patch \in RetirePatches : AdminProductUpdate(1, patch)
  \/ AdminProductDelete(1)

SpecRetire == Init /\ [][NextRetire]_vars

\* the tax endpoint
NextTax == \E r \in Reqs : CalculateTax(r)

SpecTax == InitTax /\ [][NextTax]_vars

\* a call of the shipping calculator
NextShip == \E r \in Reqs : ShippingQuote(r)

SpecShip == InitShip /\ [][NextShip]_vars

\* a call of getAllRates
NextRates == \E r \in Reqs : ShippingRates(r)

SpecRates == InitRates /\ [][NextRates]_vars

\* ------------------------------------------------------------ properties
SessionExists(sid) == \E s \in checkout_sessions : s.session_id = sid
OrdersFrom(sid) == {n \in DOMAIN orders : orders[n].from_session = sid}
Last(seq) == seq[Len(seq)]

\* this step is the arrival of a complete request for sid: it either
\* answers at once (no slot changes) or takes a slot
CompleteArrives(sid) ==
  \/ /\ req' = req
     /\ out'.kind = "complete" /\ out'.sid = sid
  \/ \E r \in Reqs : /\ req[r] = Idle
                     /\ req'[r].kind = "complete" /\ req'[r].sid = sid

\* C1: a complete on a session whose expires_at is in the past is answered
\* 404 and goes no further (no order, no stock change, no mail).
ExpiredSessionRejected ==
  [][\A sid \in SessionIds :
       (CompleteArrives(sid) /\ SessionExists(sid)
          /\ SessionGet(sid).expires_at < now)
       => (out'.kind = "complete" /\ out'.resp = 404 /\ req' = req)]_vars

\* C2: whatever the interleaving of the complete requests, a session gives
\* at most one order and each of its lines is decremented at most once.
AtMostOneOrderPerSession ==
  \A sid \in SessionIds :
    /\ Cardinality(OrdersFrom(sid)) <= 1
    /\ \A i \in 1..MaxCartLen : lineDecs[sid][i] <= 1

\* C3: when complete answers success the session row is gone; a row that
\* is gone never comes back; and a complete that finds no row answers 404
\* and leaves orders and stock as they are.
CompletedSessionStaysGone ==
  /\ [](out.kind = "complete" /\ out.resp = 200 => ~SessionExists(out.sid))
  /\ [][\A sid \in SessionIds :
          /\ (sid < nextSid /\ ~SessionExists(sid))
               => ~(\E s \in checkout_sessions' : s.session_id = sid)
          /\ (CompleteArrives(sid) /\ sid < nextSid /\ ~SessionExists(sid))
               => (out'.resp = 404 /\ UNCHANGED <<orders, products>>)]_vars

\* a complete for a session that already gave an order is answered 404
LaterCompleteRejected ==
  /\ out.kind = "complete" /\ out.resp = 404
  /\ OrdersFrom(out.sid) # {}

\* C4: the inventory of every product is its starting count minus the
\* quantities of all the stock UPDATEs executed on it, by completions and
\* by direct orders in any interleaving.
StockConservation ==
  \A p \in DOMAIN products :
    products[p].inventory_count =
      InitProducts[p].inventory_count - decremented[p]

\* a completion and a direct order have both decremented product 1
BothDecremented ==
  /\ \E n \in DOMAIN orders : orders[n].from_session = 0
  /\ \E n \in DOMAIN orders : orders[n].from_session # 0
  /\ decremented[1] >= 2 * InitStock

\* C5: no product's inventory_count is ever negative.
NoNegativeStock ==
  \A p \in DOMAIN products : products[p].inventory_count >= 0

\* C6: once no complete is in flight for a session, either its order
\* exists, every non-digital line is decremented and the row is deleted, or
\* none of the three has happened.
CompletionAllOrNothing ==
  \A sid \in SessionIds :
    (sid < nextSid
       /\ \A r \in Reqs : ~(req[r].kind = "complete" /\ req[r].sid = sid))
    => LET items == IF SessionExists(sid) THEN SessionGet(sid).items
                    ELSE IF OrdersFrom(sid) # {}
                    THEN orders[CHOOSE n \in OrdersFrom(sid) : TRUE].items
                    ELSE <<>>
           physical == {i \in DOMAIN items : ~items[i].isDigital}
       IN \/ /\ OrdersFrom(sid) # {}
             /\ ~SessionExists(sid)
             /\ \A i \in physical : lineDecs[sid][i] >= 1
          \/ /\ OrdersFrom(sid) = {}
             /\ SessionExists(sid)
             /\ \A i \in physical : lineDecs[sid][i] = 0

\* C7: a complete that reached the confirmation mail answers success with
\* the order number, whether the mail was sent, failed or threw.
NotificationNeverFailsCompletion ==
  (out.kind = "complete" /\ out.notify # "none")
    => (out.resp = 200 /\ out.orderNumber # 0)

\* C8: a complete whose sessionId matches no stored session answers 404,
\* sends no mail and leaves orders, products and checkout_sessions as they
\* are.
UnknownSessionRejected ==
  [][\A sid \in SessionIds :
       (CompleteArrives(sid) /\ ~SessionExists(sid))
       => /\ out'.kind = "complete" /\ out'.resp = 404
          /\ out'.notify = "none" /\ out'.orderNumber = 0
          /\ req' = req
          /\ UNCHANGED <<orders, products, checkout_sessions>>]_vars

\* a complete for an id no session ever had is answered 404 while another
\* session is stored
UnknownSessionAnswered ==
  /\ out.kind = "complete" /\ out.resp = 404
  /\ out.sid >= nextSid
  /\ checkout_sessions # {}

\* the line names no active product
Unresolved(line) == ProductGet(line.productId) = NullProduct
\* the line's product is active, not digital and has less than asked for
Short(line) ==
  /\ ~Unresolved(line)
  /\ ~products[line.productId].is_digital
  /\ products[line.productId].inventory_count < line.quantity

\* C9: a quote or a create-session whose cart has an unresolved line, at
\* any position, answers 400 with no breakdown; no handler goes on past
\* such a line, and the 400 leaves checkout_sessions as it is.
QuoteAllOrNothing ==
  /\ [](/\ (out.kind \in {"quote", "create"}
              /\ \E i \in DOMAIN out.cart : Unresolved(out.cart[i]))
           => (out.resp = 400 /\ out.body = NoBody)
        /\ \A r \in Reqs :
             req[r].kind \in {"quote", "create"}
             => \A i \in DOMAIN req[r].cart : ~Unresolved(req[r].cart[i]))
  /\ [][(out'.kind \in {"quote", "create"} /\ out'.resp = 400)
          => UNCHANGED checkout_sessions]_vars

\* a create-session is refused for the second line of its cart
SecondLineUnresolved ==
  /\ out.kind = "create" /\ out.resp = 400
  /\ Len(out.cart) = 2 /\ Unresolved(out.cart[2])

\* C10: when create-session reads a line whose product is not digital and
\* has less stock than the line asks for, it answers 400 insufficient
\* stock and stores no session; it answers so for no other line, a digital
\* one in particular.
StockShortRejected ==
  [][/\ \A r \in Reqs :
          (req'[r].kind = "create"
             /\ Len(req'[r].cart) = Len(req[r].cart) + 1)
          => ~Short(Last(req'[r].cart))
     /\ (out'.kind = "create" /\ out'.resp = 400)
          => /\ (out'.error = "insufficient_stock")
                  <=> Short(Last(out'.cart))
             /\ out'.body = NoBody
             /\ UNCHANGED checkout_sessions]_vars

\* a digital line asking for more than its inventory_count was accepted
\* and the next line was refused for stock
DigitalAcceptedThenShort ==
  /\ out.kind = "create" /\ out.error = "insufficient_stock"
  /\ Len(out.cart) = 2
  /\ out.cart[1].productId = 2
  /\ products[2].inventory_count < out.cart[1].quantity

\* C11: every line that quote or create-session accepts has a quantity of
\* at least 1: a cart holding a line with quantity 0 or less is answered
\* 400 and no stored session and no order carries such a line.
QuantityAtLeastOne ==
  /\ (out.kind \in {"quote", "create"}
        /\ \E i \in DOMAIN out.cart : out.cart[i].quantity < 1)
       => out.resp = 400
  /\ \A s \in checkout_sessions :
       \A i \in DOMAIN s.items : s.items[i].quantity >= 1
  /\ \A n \in DOMAIN orders :
       \A i \in DOMAIN orders[n].items : orders[n].items[i].quantity >= 1

\* what /calculate answers for a cart whose lines all resolve, when the
\* whole of it is computed from the catalog as it is at time `today`
RECURSIVE SubtotalOf(_)
SubtotalOf(items) ==
  IF items = <<>> THEN 0
  ELSE items[1].price * items[1].quantity + SubtotalOf(Tail(items))

QuoteResult(cart, today) ==
  LET items == [i \in DOMAIN cart |->
                  OrderItem(ProductGet(cart[i].productId), cart[i])]
  IN [items |-> items, subtotal |-> SubtotalOf(items),
      deliveryEstimate |-> GetDeliveryEstimate(StandardDays, today)]

\* a step of a /calculate handler
QuoteStep ==
  \/ out'.kind = "quote"
  \/ \E r \in Reqs : req'[r] # req[r] /\ req'[r].kind = "quote"

\* no step of a quote writes to a table
QuoteLeavesTables ==
  [][QuoteStep => UNCHANGED <<products, checkout_sessions, orders>>]_vars

OrderCopiesSession ==
  [][/\ \A s \in checkout_sessions' :
          s \in checkout_sessions \/ s.session_id = nextSid
     /\ (Len(orders') = Len(orders) + 1 /\ Last(orders').from_session # 0)
          => LET o == Last(orders')
                 sid == o.from_session
             IN /\ o.status = "paid"
                /\ SessionExists(sid)
                     => /\ o.items = SessionGet(sid).items
                        /\ o.subtotal = SessionGet(sid).subtotal
                /\ ~SessionExists(sid)
                     => \E m \in OrdersFrom(sid) :
                          /\ o.items = orders[m].items
                          /\ o.subtotal = orders[m].subtotal]_vars

\* the second order was made, at the old price, from a session stored
\* before the price changed: the first order, inserted earlier, is from a
\* session stored at the new price
OrderedAtOldPrice ==
  /\ Len(orders) = 2
  /\ orders[1].from_session # 0 /\ orders[2].from_session # 0
  /\ orders[1].items[1].productId = 1
  /\ orders[1].items[1].price = NewPrice
  /\ orders[2].items[1].productId = 1
  /\ orders[2].items[1].price = InitProducts[1].price
  /\ products[1].price = NewPrice

\* the statuses an order may have
OrderStatuses == {"pending", "paid", "processing", "shipped", "delivered",
                  "cancelled"}

\* C14: every order's status is one of pending, paid, processing, shipped,
\* delivered, cancelled, after any sequence of completes, direct shop
\* orders and admin status updates.
OrderStatusValid ==
  \A n \in DOMAIN orders : orders[n].status \in OrderStatuses

\* an admin request for a status outside the list was refused while a
\* completed order is shipped and a direct order is pending
InvalidStatusRefused ==
  /\ out.kind = "admin_order" /\ out.resp = 400
  /\ \E n \in DOMAIN orders :
       orders[n].from_session # 0 /\ orders[n].status = "shipped"
  /\ \E n \in DOMAIN orders :
       orders[n].from_session = 0 /\ orders[n].status = "pending"

\* C15: no step changes anything but the status of an existing order or
\* removes an order; only the admin update changes a status, and only
\* that of the order it addresses.
OrdersImmutable ==
  [][/\ Len(orders') >= Len(orders)
     /\ \A n \in DOMAIN orders :
          [orders'[n] EXCEPT !.status = orders[n].status] = orders[n]
     /\ \A n \in DOMAIN orders :
          (out'.kind = "admin_order" /\ n = out'.orderNumber)
            \/ orders'[n] = orders[n]
     /\ out'.kind = "admin_order" => Len(orders') = Len(orders)]_vars

\* the admin update has set one of two orders to shipped and the other
\* one keeps its status
OneOrderShipped ==
  /\ out.kind = "admin_order" /\ out.resp = 200
  /\ Len(orders) = 2
  /\ orders[out.orderNumber].status = "shipped"
  /\ \E n \in DOMAIN orders :
       n # out.orderNumber /\ orders[n].status # "shipped"

\* n is x hundred-thousandths of a cent rounded to the cent, a half
\* going up
IsRounded(n, x) == n * 100000 - 50000 <= x /\ x < n * 100000 + 50000

RECURSIVE SumAmounts(_)
SumAmounts(breakdown) ==
  IF breakdown = <<>> THEN 0
  ELSE breakdown[1].amount + SumAmounts(Tail(breakdown))

\* C16: for a US state with a nonzero rate, taxAmount is the rate times
\* the taxable amount rounded to the cent, the taxable amount being
\* subtotal + shipping in the states that tax shipping and the subtotal in
\* the others.
USSalesTax ==
  (out.kind = "tax" /\ out.request.country = "US"
     /\ RateOf(US_STATE_TAX_RATES, ToUpperCase(out.request.state)) > 0)
  => LET stateCode == ToUpperCase(out.request.state)
         taxable == IF stateCode \in statesTaxingShipping
                    THEN out.request.subtotal + out.request.shipping
                    ELSE out.request.subtotal
     IN /\ out.body.taxableAmount = taxable
        /\ IsRounded(out.body.taxAmount,
                     taxable * US_STATE_TAX_RATES[stateCode])

\* C17: for AK, DE, MT, NH and OR the tax is 0, the breakdown is empty
\* and the total is subtotal + shipping, whatever the amounts.
NoSalesTaxStates ==
  (out.kind = "tax" /\ out.request.country = "US"
     /\ ToUpperCase(out.request.state) \in {"AK", "DE", "MT", "NH", "OR"})
  => /\ out.body.taxAmount = 0
     /\ out.body.breakdown = <<>>
     /\ out.body.total = out.request.subtotal + out.request.shipping

\* an order with a subtotal and a shipping charge sent to Oregon
OregonUntaxed ==
  /\ out.kind = "tax" /\ out.request.country = "US"
  /\ out.request.state = "OR"
  /\ out.request.subtotal = 7000 /\ out.request.shipping > 0
  /\ out.body.total = out.request.subtotal + out.request.shipping

\* C18: in Canada the tax is GST at 5% plus the provincial tax, each on
\* subtotal + shipping and each rounded to the cent; the breakdown has a
\* GST line and, exactly when the provincial rate is not zero, a second
\* line named HST (provincial portion) for NB, NL, NS, ON and PE, QST for
\* QC and PST for the others.
CanadianTax ==
  (out.kind = "tax" /\ out.request.country = "CA")
  => LET province == ToUpperCase(out.request.state)
         rate == RateOf(CANADIAN_PROVINCIAL_TAX, province)
         taxable == out.request.subtotal + out.request.shipping
         lines == out.body.breakdown
         label == CASE province \in {"NB", "NL", "NS", "ON", "PE"}
                         -> "HST (provincial portion)"
                    [] province = "QC" -> "QST"
                    [] OTHER -> "PST"
     IN /\ Len(lines) = IF rate = 0 THEN 1 ELSE 2
        /\ lines[1].name = <<"GST">>
        /\ IsRounded(lines[1].amount, taxable * 5000)
        /\ rate = 0 => out.body.taxAmount = lines[1].amount
        /\ rate # 0
             => /\ lines[2].name = <<label>>
                /\ IsRounded(lines[2].amount, taxable * rate)
                /\ out.body.taxAmount = lines[1].amount + lines[2].amount

\* C19: in every branch taxAmount is the aggregate taxRate
\* times the taxable amount rounded to the cent, and the amounts of the
\* breakdown sum to taxAmount.
TaxAmountIsRoundedRate ==
  out.kind = "tax"
  => /\ IsRounded(out.body.taxAmount,
                  out.body.taxableAmount * out.body.taxRate)
     /\ SumAmounts(out.body.breakdown) = out.body.taxAmount

\* the request of a shipping quote meets the free shipping rule: free
\* shipping is enabled, the subtotal reaches the destination's threshold
\* (75 for US, 150 elsewhere) and the method is standard
FreeShippingMet ==
  /\ out.options.freeShippingEnabled
  /\ out.request.subtotal >= (IF out.request.country = "US" THEN 7500
                                ELSE 15000)
  /\ out.request.method = "standard"

\* baseRate + weightSurcharge + handlingFee of the quote, not below 0
QuoteSum ==
  LET sum == out.body.baseRate + out.body.weightSurcharge
             + out.body.handlingFee
  IN IF sum > 0 THEN sum ELSE 0

\* C20 (as stated): the total of a shipping quote is 0 exactly when the
\* free shipping rule is met, and in every other case it is
\* max(0, baseRate + weightSurcharge + handlingFee).
ShippingTotalIsSum ==
  out.kind = "shipping"
  => /\ out.body.total = 0 <=> FreeShippingMet
     /\ ~FreeShippingMet => out.body.total = QuoteSum

\* C20 (amended): the total of a shipping quote is 0 exactly when the free
\* shipping rule is met, and in every other case it is
\* max(0, baseRate + weightSurcharge + handlingFee) rounded to a whole
\* cent: a whole number of cents within half a cent of the sum, so equal
\* to the sum when the sum is a whole number of cents.
ShippingTotalIsRoundedSum ==
  out.kind = "shipping"
  => /\ out.body.total = 0 <=> FreeShippingMet
     /\ out.body.handlingFee = out.options.handlingFee
     /\ ~FreeShippingMet
          => /\ out.body.total % 10 = 0
             /\ out.body.total - QuoteSum \in (0 - 5)..5

\* an express quote for an order above the threshold, free shipping being
\* enabled, is charged, and its total is the sum rounded up by half a cent
ExpressAboveThresholdCharged ==
  /\ out.kind = "shipping"
  /\ out.options.freeShippingEnabled
  /\ out.request.country = "US" /\ out.request.subtotal = 7500
  /\ out.request.method = "express"
  /\ out.body.total = QuoteSum + 5

\* the threshold of the destination of the shipping quote, in cents
ThresholdOf(country) == IF country = "US" THEN 7500 ELSE 15000

\* C21 (as stated): checkFreeShipping reports the threshold 75 for US and
\* 150 for any other country, eligible exactly when subtotal >= threshold,
\* and amountUntilFree = max(0, threshold - subtotal).
FreeShippingReport ==
  out.kind = "shipping"
  => LET free == out.body.freeShipping
         threshold == ThresholdOf(out.request.country)
         short == threshold - out.request.subtotal
     IN /\ free.eligible <=> out.request.subtotal >= threshold
        /\ DOMAIN free = {"eligible", "threshold", "method",
                          "amountUntilFree"}
        /\ free.threshold = threshold
        /\ free.amountUntilFree = IF short > 0 THEN short ELSE 0

\* C21 (amended): with free shipping enabled checkFreeShipping reports
\* the threshold 75 for US and 150 for any other country, eligible exactly
\* when subtotal >= threshold, and amountUntilFree =
\* max(0, threshold - subtotal); with free shipping disabled it reports
\* eligible false and nothing else, whatever the subtotal.
FreeShippingReportWhenEnabled ==
  out.kind = "shipping"
  => LET free == out.body.freeShipping
         threshold == ThresholdOf(out.request.country)
         short == threshold - out.request.subtotal
     IN IF out.options.freeShippingEnabled
        THEN /\ free.eligible <=> out.request.subtotal >= threshold
             /\ free.threshold = threshold
             /\ free.method = "standard"
             /\ free.amountUntilFree = IF short > 0 THEN short ELSE 0
        ELSE free = [eligible |-> FALSE]

\* a US subtotal of 74.99, free shipping being enabled, is reported not
\* eligible with 0.01 remaining
OneCentShort ==
  /\ out.kind = "shipping" /\ out.options.freeShippingEnabled
  /\ out.request.country = "US" /\ out.request.subtotal = 7499
  /\ ~out.body.freeShipping.eligible
  /\ out.body.freeShipping.amountUntilFree = 1

\* C22: the zone of a US destination is the one zone of 1..6 that lists
\* its state (CA is in 1, NY in 5) and 5 for a state that is not listed or
\* is missing; the zone of any other destination is the one zone of A..E
\* that lists its country and E for a country that is not listed.
ZoneLookupTotal ==
  out.kind = "shipping"
  => LET zone == out.body.zone
         state == ToUpperCase(out.request.state)
         country == ToUpperCase(out.request.country)
     IN IF out.request.country = "US"
        THEN /\ zone \in 1..6
             /\ \A z \in 1..6 : state \in US_SHIPPING_ZONES[z] => zone = z
             /\ (\A z \in 1..6 : state \notin US_SHIPPING_ZONES[z])
                  => zone = 5
             /\ state = "CA" => zone = 1
             /\ state = "NY" => zone = 5
        ELSE /\ zone \in {"A", "B", "C", "D", "E"}
             /\ \A z \in {"A", "B", "C", "D", "E"} :
                  country \in INTERNATIONAL_ZONES[z] => zone = z
             /\ (\A z \in {"A", "B", "C", "D", "E"} :
                    country \notin INTERNATIONAL_ZONES[z]) => zone = "E"

\* a quote for a US state that no zone lists is in zone 5, and so is one
\* with no state
UnknownStateZoneFive ==
  /\ out.kind = "shipping" /\ out.request.country = "US"
  /\ out.request.state \in {"ZZ", ""}
  /\ out.body.zone = 5

\* C23: getAllRates returns one quote for each available method, standard,
\* express and overnight for US and standard and express for any other
\* country, and no quote costs more than the next one.
RatesSortedPerMethod ==
  out.kind = "rates"
  => LET rates == out.body
         methods == IF out.request.country = "US"
                    THEN {"standard", "express", "overnight"}
                    ELSE {"standard", "express"}
     IN /\ Len(rates) = Cardinality(methods)
        /\ {rates[i].method : i \in DOMAIN rates} = methods
        /\ \A i \in 1..(Len(rates) - 1) : rates[i].total <= rates[i + 1].total

\* the rates of a US order that ships free by standard: the free quote
\* first, overnight last, and a charge for the heavy parcel on the others
RatesWithFreeStandard ==
  /\ out.kind = "rates" /\ out.request.country = "US"
  /\ out.request.weight > 4
  /\ Len(out.body) = 3
  /\ out.body[1].method = "standard" /\ out.body[1].total = 0
  /\ out.body[2].method = "express" /\ out.body[2].total > 0
  /\ out.body[3].method = "overnight"
  /\ out.body[3].total > out.body[2].total

\* C24: the weight surcharge of a quote is 0 up to 1 lb and, above it,
\* 0.50 for US and 1.50 for any other destination for each pound over 1;
\* a US standard quote for 3 lb that is not free and has no handling fee
\* costs the base rate of its zone plus 1.00.
WeightSurcharge ==
  out.kind = "shipping"
  => LET isUS == out.request.country = "US"
         weight == out.request.weight
         quote == out.body
     IN /\ weight <= 4 => quote.weightSurcharge = 0
        /\ weight > 4
             => quote.weightSurcharge
                  = (weight - 4) * (IF isUS THEN 125 ELSE 375)
        /\ (isUS /\ out.request.method = "standard" /\ weight = 12
              /\ out.request.subtotal < 7500 /\ out.options.handlingFee = 0)
             => /\ quote.baseRate = SHIPPING_RATES.US.standard[quote.zone]
                /\ quote.total = quote.baseRate + 1000

\* a US standard quote for 3 lb to California costs 5.99 + 1.00
ThreePoundsCharged ==
  /\ out.kind = "shipping"
  /\ out.request.weight = 12
  /\ out.request.country = "US" /\ out.request.state = "CA"
  /\ out.request.method = "standard"
  /\ out.body.weightSurcharge = 1000
  /\ out.body.total = 6990

\* C25: a session for a cart of one product of price 35 and quantity 2,
\* shipped standard to California, is stored with subtotal 70, shipping
\* 5.99 (zone 1, no surcharge, not free), tax 5.08 on the subtotal only
\* and total 81.07; and every stored session's total is its subtotal plus
\* its shipping cost plus its tax amount.
EndToEndPricing ==
  \A s \in checkout_sessions :
    /\ s.total = s.subtotal * 100 + s.shipping_cost + s.tax_amount
    /\ (Len(s.items) = 1 /\ s.items[1].price = 35 /\ s.items[1].quantity = 2)
         => /\ s.subtotal = 70
            /\ getUSZone(ShippingAddress.state) = 1
            /\ s.shipping_cost = 599
            /\ s.tax_amount = 508
            /\ s.total = 8107

\* C26: no quote that calculate returns for a destination other than US
\* carries the method overnight, whatever method was asked for.
OvernightUSOnly ==
  (out.kind = "shipping" /\ out.request.country # "US")
  => out.body.method # "overnight"

\* C27: every product that an order created by complete names exists and
\* is active when the order is created.
OrderedProductsActive ==
  [][(Len(orders') = Len(orders) + 1 /\ Last(orders').from_session # 0)
     => \A i \in DOMAIN Last(orders').items :
          ProductGet(Last(orders').items[i].productId) # NullProduct]_vars

\* the quantity that the items of a cart ask of a product, all lines
\* together
RECURSIVE QuantityOf(_, _)
QuantityOf(items, id) ==
  IF items = <<>> THEN 0
  ELSE (IF items[1].productId = id THEN items[1].quantity ELSE 0)
       + QuantityOf(Tail(items), id)

\* C28: a session is stored only if, for every product that is not
\* digital, the quantity its lines ask for together is within the
\* product's inventory_count.
CombinedQuantityInStock ==
  [][\A s \in checkout_sessions' \ checkout_sessions :
       \A id \in DOMAIN products :
         ~products[id].is_digital
           => QuantityOf(s.items, id) <= products[id].inventory_count]_vars

\* C29: the step in which create-session answers 200 adds one row to
\* checkout_sessions, with a session id that no row had, and leaves the
\* rows that were there, every product and the orders as they were; no
\* other step adds a session.
CreateSessionFrame ==
  [][/\ (out'.kind = "create" /\ out'.resp = 200)
        => /\ checkout_sessions \subseteq checkout_sessions'
           /\ Cardinality(checkout_sessions') =
                Cardinality(checkout_sessions) + 1
           /\ \A s \in checkout_sessions' \ checkout_sessions :
                /\ s.session_id = out'.sid
                /\ \A t \in checkout_sessions :
                     t.session_id # s.session_id
           /\ products' = products
           /\ orders' = orders
     /\ ~(out'.kind = "create" /\ out'.resp = 200)
        => checkout_sessions' \subseteq checkout_sessions]_vars

\* a session has been created while an order exists, and it asks for the
\* physical product
CreatedBesideOrder ==
  /\ out.kind = "create" /\ out.resp = 200
  /\ Len(orders) = 1
  /\ \E s \in checkout_sessions :
       /\ s.session_id = out.sid
       /\ QuantityOf(s.items, 1) > 0

\* C30: no step of a quote, a create-session, a complete or a shop order
\* raises a product's inventory_count, and none changes the
\* inventory_count of a digital product.
StockNeverIncreases ==
  [][\A id \in DOMAIN products :
       /\ products'[id].inventory_count <= products[id].inventory_count
       /\ products[id].is_digital
            => products'[id].inventory_count
                 = products[id].inventory_count]_vars

====
